---- MODULE Spec2Model ----
(***************************************************************************)
(* Model of homework_01/log_analyzer.py: the run of main() from locating   *)
(* the latest nginx log to saving the report.                              *)
(*                                                                         *)
(* Text is modelled as sequences of one-character strings, so that         *)
(* str.split(' ') and float() are computed character by character.         *)
(* Request times in the modelled logs are written as decimal integers, so  *)
(* every float sum is exact and times are carried as naturals; ratios are  *)
(* carried as exact fractions [num, den].  The error-rate comparison       *)
(* errors_count / len(logs) > ERRORS_THRESHOLD is computed on the exact    *)
(* fractions, which agrees with the correctly rounded float division for   *)
(* the small counts and the thresholds used here.                          *)
(***************************************************************************)
EXTENDS Integers, Sequences, FiniteSets, TLC

VARIABLES
    log_dir,          \* the directory config["LOG_DIR"]: whether it exists, its file names
    file_lines,       \* text lines stored in the latest log file
    config,           \* the global config mapping (the keys main reads)
    pc,               \* position of main()
    latest_log_file,  \* main: latest_log_file
    logs,             \* main: logs, the list returned by read_log_file
    i,                \* process_logs: number of loop iterations done
    statistics,       \* process_logs: statistics, in key insertion order
    total_time,       \* process_logs: total_time
    errors_count,     \* process_logs: errors_count
    agg,              \* process_logs: not called / returned / raised
    report_data,      \* main: report_data
    rep,              \* generate_report: not called / returned / raised
    saved,            \* save_report has written the report file
    exc,              \* exception that left main(), "none" if none
    exc_in            \* function that raised it

vars == <<log_dir, file_lines, config, pc, latest_log_file, logs, i, statistics,
          total_time, errors_count, agg, report_data, rep, saved, exc, exc_in>>

\* ------------------------------------------------------------------ bounds
MaxLines == 3
MaxReportSize == 2

\* ------------------------------------------------------------ input space
Missing == [exists |-> FALSE, files |-> {}]
Directory(files) == [exists |-> TRUE, files |-> files]
NoFile == [prefix |-> "None", date |-> 0, ext |-> ""]
LogPrefix == "nginx-access-ui.log"

\* A file name is kept as its three parts: the text before the date token,
\* the date token and the extension; name = prefix \o date \o ext.
FileNames ==
    { [prefix |-> "nginx-access-ui.log", date |-> 20170629, ext |-> ".gz"],
      [prefix |-> "nginx-access-ui.log", date |-> 20170630, ext |-> ""],
      [prefix |-> "other.log", date |-> 20170701, ext |-> ""] }

\* ERRORS_THRESHOLD values a config file can set: the default 0.1, 0.5 and 1
Thresholds == { [num |-> 1, den |-> 10], [num |-> 1, den |-> 2], [num |-> 1, den |-> 1] }

Fields7 == <<"-", " ", "-", " ", "-", " ", "-", " ", "-", " ", "-", " ", "G", " ">>
LogLine(url, time) == Fields7 \o url \o <<" ">> \o time \o <<"\n">>

LineCatalogue ==
    { LogLine(<<"/", "a">>, <<"0">>),
      LogLine(<<"/", "a">>, <<"2">>),
      LogLine(<<"/", "a">>, <<"1">>),
      LogLine(<<"/", "b">>, <<"1">>),
      LogLine(<<"/", "c">>, <<"0">>),
      LogLine(<<"/", "a">>, <<"x">>),
      <<"G", " ", "/", "a", " ", "1", "\n">> }

RECURSIVE SeqsUpTo(_, _)
SeqsUpTo(S, n) ==
    IF n = 0 THEN { <<>> }
    ELSE LET shorter == SeqsUpTo(S, n - 1)
         IN  shorter \cup { Append(s, x) : s \in shorter, x \in S }

\* ---------------------------------------------------------- get_latest_log_file
StartsWithLogPrefix(f) == f.prefix = LogPrefix

NameLess(f, g) ==
    \/ f.date < g.date
    \/ f.date = g.date /\ f.ext = "" /\ g.ext # ""

MaxName(files) == CHOOSE f \in files : \A g \in files : g = f \/ NameLess(g, f)

GetLatestLogFile(dir) ==
    LET log_files == { f \in dir.files : StartsWithLogPrefix(f) }
    IN  IF log_files = {} THEN NoFile ELSE MaxName(log_files)

\* ---------------------------------------------------------------- read_log_file
EndsWithGz(f) == f.ext = ".gz"

ReadLogFile(f, lines) ==
    [k \in 1..Len(lines) |->
        [kind |-> IF EndsWithGz(f) THEN "str" ELSE "bytes", chars |-> lines[k]]]

\* --------------------------------------------------------------- parse_log_line
RECURSIVE SplitAcc(_, _, _)
SplitAcc(s, cur, acc) ==
    IF s = <<>> THEN Append(acc, cur)
    ELSE IF Head(s) = " " THEN SplitAcc(Tail(s), <<>>, Append(acc, cur))
    ELSE SplitAcc(Tail(s), Append(cur, Head(s)), acc)

Split(s) == SplitAcc(s, <<>>, <<>>)

Whitespace == { " ", "\n" }
Digits == { "0", "1", "2", "3", "4", "5", "6", "7", "8", "9" }

RECURSIVE LStrip(_)
LStrip(s) == IF s # <<>> /\ Head(s) \in Whitespace THEN LStrip(Tail(s)) ELSE s

RECURSIVE RStrip(_)
RStrip(s) ==
    IF s # <<>> /\ s[Len(s)] \in Whitespace THEN RStrip(SubSeq(s, 1, Len(s) - 1)) ELSE s

Strip(s) == RStrip(LStrip(s))

DigitValue(c) ==
    CASE c = "0" -> 0 [] c = "1" -> 1 [] c = "2" -> 2 [] c = "3" -> 3 [] c = "4" -> 4
      [] c = "5" -> 5 [] c = "6" -> 6 [] c = "7" -> 7 [] c = "8" -> 8 [] c = "9" -> 9

IsFloat(field) ==
    LET s == Strip(field)
    IN  s # <<>> /\ \A k \in 1..Len(s) : s[k] \in Digits

RECURSIVE DecimalValue(_)
DecimalValue(s) ==
    IF s = <<>> THEN 0
    ELSE 10 * DecimalValue(SubSeq(s, 1, Len(s) - 1)) + DigitValue(s[Len(s)])

Float(field) == DecimalValue(Strip(field))

Failure(e) == [ok |-> FALSE, err |-> e, url |-> <<>>, request_time |-> 0]

ParseLogLine(line) ==
    IF line.kind = "bytes" THEN Failure("TypeError")
    ELSE LET parts == Split(line.chars)
         IN  IF Len(parts) < 8 THEN Failure("IndexError")
             ELSE IF ~IsFloat(parts[Len(parts)]) THEN Failure("ValueError")
             ELSE [ok |-> TRUE, err |-> "none", url |-> parts[8],
                   request_time |-> Float(parts[Len(parts)])]

\* ----------------------------------------------------------------- process_logs
HasUrl(stats, url) == \E k \in 1..Len(stats) : stats[k].url = url

\* statistics[url].append(t) on a defaultdict(list)
AppendTime(stats, url, t) ==
    IF HasUrl(stats, url)
    THEN [k \in 1..Len(stats) |->
            IF stats[k].url = url
            THEN [url |-> url, times |-> Append(stats[k].times, t)]
            ELSE stats[k]]
    ELSE Append(stats, [url |-> url, times |-> <<t>>])

\* Variant: the URL key is created as soon as field 7 is read, before the
\* time field is converted, and the time is still recorded on success.
ProcessLogKeyFirst(st, line) ==
    LET parsed == ParseLogLine(line)
        parts == Split(line.chars)
    IN  IF parsed.ok
        THEN [statistics |-> AppendTime(st.statistics, parsed.url, parsed.request_time),
              total_time |-> st.total_time + parsed.request_time,
              errors_count |-> st.errors_count]
        ELSE [statistics |->
                 IF parsed.err = "ValueError" /\ ~HasUrl(st.statistics, parts[8])
                 THEN Append(st.statistics, [url |-> parts[8], times |-> <<>>])
                 ELSE st.statistics,
              total_time |-> st.total_time,
              errors_count |-> st.errors_count + 1]

\* Variant: the running total is not updated.
ProcessLogNoTotal(st, line) ==
    LET parsed == ParseLogLine(line)
    IN  IF parsed.ok
        THEN [statistics |-> AppendTime(st.statistics, parsed.url, parsed.request_time),
              total_time |-> st.total_time,
              errors_count |-> st.errors_count]
        ELSE [statistics |-> st.statistics,
              total_time |-> st.total_time,
              errors_count |-> st.errors_count + 1]

\* One iteration of the loop over logs: the try body and its except clause.
ProcessLog(st, line) ==
    LET parsed == ParseLogLine(line)
    IN  IF parsed.ok
        THEN [statistics |-> AppendTime(st.statistics, parsed.url, parsed.request_time),
              total_time |-> st.total_time + parsed.request_time,
              errors_count |-> st.errors_count]
        ELSE [statistics |-> st.statistics,
              total_time |-> st.total_time,
              errors_count |-> st.errors_count + 1]

\* Variant: the comparison is not strict.
TooManyErrorsGE(errors, lines, threshold) ==
    errors * threshold.den >= threshold.num * lines

\* errors_count / len(logs) > config['ERRORS_THRESHOLD'], for lines > 0
TooManyErrors(errors, lines, threshold) ==
    errors * threshold.den > threshold.num * lines

\* -------------------------------------------------------------- generate_report
RECURSIVE Sum(_)
Sum(times) == IF times = <<>> THEN 0 ELSE Head(times) + Sum(Tail(times))

MaxOf(times) == CHOOSE m \in { times[k] : k \in 1..Len(times) } :
                    \A k \in 1..Len(times) : times[k] <= m

RECURSIVE Insert(_, _)
Insert(x, s) ==
    IF s = <<>> THEN <<x>>
    ELSE IF x < Head(s) THEN <<x>> \o s
    ELSE <<Head(s)>> \o Insert(x, Tail(s))

RECURSIVE Sorted(_)
Sorted(times) ==
    IF times = <<>> THEN <<>>
    ELSE Insert(times[Len(times)], Sorted(SubSeq(times, 1, Len(times) - 1)))

RemoveAt(s, k) == SubSeq(s, 1, k - 1) \o SubSeq(s, k + 1, Len(s))

\* Variant: the first n items in insertion order, not ranked.
FirstN(n, items) == SubSeq(items, 1, IF n < Len(items) THEN n ELSE Len(items))

\* heapq.nlargest(n, items, key=sum of times): the same as
\* sorted(items, key=key, reverse=True)[:n], a stable descending order.
RECURSIVE NLargest(_, _)
NLargest(n, items) ==
    IF n <= 0 \/ items = <<>> THEN <<>>
    ELSE LET best == CHOOSE k \in 1..Len(items) :
                        /\ \A j \in 1..Len(items) : Sum(items[j].times) <= Sum(items[k].times)
                        /\ \A j \in 1..(k - 1) : Sum(items[j].times) < Sum(items[k].times)
         IN  <<items[best]>> \o NLargest(n - 1, RemoveAt(items, best))

\* Variant: the lower of the two middle elements for an even length.
MedianLow(times) == Sorted(times)[((Len(times) - 1) \div 2) + 1]

\* sorted(times)[len(times) // 2], with the 0-based index made 1-based
Median(times) == Sorted(times)[(Len(times) \div 2) + 1]

Fraction(n, d) == [num |-> n, den |-> d]

UrlStats(entry, stats, total) ==
    [url        |-> entry.url,
     count      |-> Len(entry.times),
     count_perc |-> Fraction(Len(entry.times), Len(stats)),
     time_sum   |-> Sum(entry.times),
     time_perc  |-> Fraction(Sum(entry.times), total),
     time_avg   |-> Fraction(Sum(entry.times), Len(entry.times)),
     time_max   |-> MaxOf(entry.times),
     time_med   |-> Median(entry.times)]

\* A division by total_time is evaluated for the first selected URL, so the
\* call raises ZeroDivisionError when total_time is 0 and a URL is selected.
GenerateReportRaises(stats, total, report_size) ==
    NLargest(report_size, stats) # <<>> /\ total = 0

GenerateReport(stats, total, report_size) ==
    LET sorted_stats == NLargest(report_size, stats)
    IN  [k \in 1..Len(sorted_stats) |-> UrlStats(sorted_stats[k], stats, total)]

\* ------------------------------------------------------------------------ main
EmptyFileContent == { <<>> }

Init ==
    /\ log_dir \in { Missing } \cup { Directory(files) : files \in SUBSET FileNames }
    /\ file_lines \in IF log_dir.exists /\ GetLatestLogFile(log_dir) # NoFile
                      THEN SeqsUpTo(LineCatalogue, MaxLines)
                      ELSE EmptyFileContent
    /\ config \in [REPORT_SIZE : 1..MaxReportSize, ERRORS_THRESHOLD : Thresholds]
    /\ pc = "get_latest_log_file"
    /\ latest_log_file = NoFile
    /\ logs = <<>>
    /\ i = 0
    /\ statistics = <<>>
    /\ total_time = 0
    /\ errors_count = 0
    /\ agg = "none"
    /\ report_data = <<>>
    /\ rep = "none"
    /\ saved = FALSE
    /\ exc = "none"
    /\ exc_in = "none"

\* main: latest_log_file = get_latest_log_file(config["LOG_DIR"]) and the
\* early return; os.listdir raises FileNotFoundError for a missing directory.
MainGetLatestLogFile ==
    /\ pc = "get_latest_log_file"
    /\ IF ~log_dir.exists
       THEN /\ exc' = "FileNotFoundError"
            /\ exc_in' = "get_latest_log_file"
            /\ pc' = "done"
            /\ UNCHANGED latest_log_file
       ELSE /\ latest_log_file' = GetLatestLogFile(log_dir)
            /\ pc' = IF latest_log_file' = NoFile THEN "done" ELSE "read_log_file"
            /\ UNCHANGED <<exc, exc_in>>
    /\ UNCHANGED <<log_dir, file_lines, config, logs, i, statistics, total_time,
                   errors_count, agg, report_data, rep, saved>>

\* main: logs = read_log_file(log_path)
MainReadLogFile ==
    /\ pc = "read_log_file"
    /\ logs' = ReadLogFile(latest_log_file, file_lines)
    /\ pc' = "process_logs"
    /\ UNCHANGED <<log_dir, file_lines, config, latest_log_file, i, statistics,
                   total_time, errors_count, agg, report_data, rep, saved, exc, exc_in>>

\* process_logs: one iteration of "for log in logs"
ProcessLogsLoop ==
    /\ pc = "process_logs"
    /\ i < Len(logs)
    /\ LET st == ProcessLog([statistics |-> statistics, total_time |-> total_time,
                             errors_count |-> errors_count], logs[i + 1])
       IN  /\ statistics' = st.statistics
           /\ total_time' = st.total_time
           /\ errors_count' = st.errors_count
    /\ i' = i + 1
    /\ UNCHANGED <<log_dir, file_lines, config, pc, latest_log_file, logs, agg,
                   report_data, rep, saved, exc, exc_in>>

\* process_logs: the threshold test after the loop, and the return
ProcessLogsFinish ==
    /\ pc = "process_logs"
    /\ i = Len(logs)
    /\ IF Len(logs) = 0
       THEN /\ exc' = "ZeroDivisionError"
            /\ exc_in' = "process_logs"
            /\ agg' = "raised"
            /\ pc' = "done"
       ELSE IF TooManyErrors(errors_count, Len(logs), config.ERRORS_THRESHOLD)
       THEN /\ exc' = "RuntimeError"
            /\ exc_in' = "process_logs"
            /\ agg' = "raised"
            /\ pc' = "done"
       ELSE /\ agg' = "returned"
            /\ pc' = "generate_report"
            /\ UNCHANGED <<exc, exc_in>>
    /\ UNCHANGED <<log_dir, file_lines, config, latest_log_file, logs, i, statistics,
                   total_time, errors_count, report_data, rep, saved>>

\* main: report_data = generate_report(statistics, total_time, config["REPORT_SIZE"])
MainGenerateReport ==
    /\ pc = "generate_report"
    /\ IF GenerateReportRaises(statistics, total_time, config.REPORT_SIZE)
       THEN /\ exc' = "ZeroDivisionError"
            /\ exc_in' = "generate_report"
            /\ rep' = "raised"
            /\ pc' = "done"
            /\ UNCHANGED report_data
       ELSE /\ report_data' = GenerateReport(statistics, total_time, config.REPORT_SIZE)
            /\ rep' = "returned"
            /\ pc' = "save_report"
            /\ UNCHANGED <<exc, exc_in>>
    /\ UNCHANGED <<log_dir, file_lines, config, latest_log_file, logs, i, statistics,
                   total_time, errors_count, agg, saved>>

\* main: save_report(report_data, report_filename)
MainSaveReport ==
    /\ pc = "save_report"
    /\ saved' = TRUE
    /\ pc' = "done"
    /\ UNCHANGED <<log_dir, file_lines, config, latest_log_file, logs, i, statistics,
                   total_time, errors_count, agg, report_data, rep, exc, exc_in>>

Next ==
    \/ MainGetLatestLogFile
    \/ MainReadLogFile
    \/ ProcessLogsLoop
    \/ ProcessLogsFinish
    \/ MainGenerateReport
    \/ MainSaveReport

Spec == Init /\ [][Next]_vars

\* ====================================================================== claims
Rows == 1..Len(report_data)
Threshold == config.ERRORS_THRESHOLD
Min(a, b) == IF a < b THEN a ELSE b

\* C1: once process_logs has consumed all lines of a non-empty log, it raises
\* (RuntimeError, no statistics returned) exactly when errors_count / total
\* lines is strictly greater than ERRORS_THRESHOLD; a rate equal to the
\* threshold returns the aggregation result.
C1_AbortIffStrictlyAbove ==
    (agg # "none" /\ Len(logs) > 0) =>
        /\ (agg = "raised") <=> (errors_count * Threshold.den > Threshold.num * Len(logs))
        /\ (agg = "raised") => (exc = "RuntimeError" /\ exc_in = "process_logs")
        /\ (agg = "returned") => (exc_in # "process_logs")

C1_Witness ==
    /\ agg = "returned"
    /\ errors_count > 0
    /\ errors_count * Threshold.den = Threshold.num * Len(logs)

\* C2: for a log file, plain or .gz, with at least one line and only
\* well-formed lines, read_log_file -> process_logs counts no parse error and
\* the run proceeds to report generation.
WellFormed(chars) ==
    LET parts == Split(chars)
    IN  Len(parts) >= 8 /\ IsFloat(parts[Len(parts)])

C2_WellFormedFileHasNoErrors ==
    (/\ agg # "none"
     /\ Len(file_lines) >= 1
     /\ \A k \in 1..Len(file_lines) : WellFormed(file_lines[k]))
        => (errors_count = 0 /\ agg = "returned")

\* C3: when the log yields zero lines, process_logs fails with the dedicated
\* EmptyLogFile error, not with the excessive-errors failure nor with an
\* arithmetic error, and no report is produced.
C3_EmptyLogFileError ==
    (agg # "none" /\ Len(logs) = 0) => (exc = "EmptyLogFile" /\ ~saved)

\* C4: when total_time is 0 and at least one URL was aggregated,
\* generate_report does not fail and every row has time_perc 0.0.
C4_ZeroTotalTimeGuard ==
    (rep # "none" /\ total_time = 0 /\ statistics # <<>>) =>
        /\ rep = "returned"
        /\ \A r \in Rows : report_data[r].time_perc.num = 0

\* C5: a missing log directory, like a directory without a file named
\* nginx-access-ui.log*, ends main early and cleanly: no exception reaches
\* the top level and save_report is never called.
NoLogFileAvailable ==
    \/ ~log_dir.exists
    \/ \A f \in log_dir.files : ~StartsWithLogPrefix(f)

C5_NoLogEndsCleanly ==
    NoLogFileAvailable => (exc = "none" /\ ~saved /\ agg = "none" /\ rep = "none")

\* C6: for every statistics map and report_size N >= 1, generate_report
\* returns exactly min(N, number of distinct URLs) rows, and every reported
\* URL has a time_sum >= the time_sum of every URL left out.
Reported(url) == \E r \in Rows : report_data[r].url = url

C6_TopNRows ==
    (rep # "none") =>
        /\ rep = "returned"
        /\ Len(report_data) = Min(config.REPORT_SIZE, Len(statistics))
        /\ \A r \in Rows : \A k \in 1..Len(statistics) :
              ~Reported(statistics[k].url) =>
                  report_data[r].time_sum >= Sum(statistics[k].times)

\* C7: in the list generate_report returns, rows are in descending order of
\* time_sum: row r has a time_sum >= that of row r + 1.
C7_RowsDescending ==
    (rep = "returned") =>
        \A r \in Rows : (r + 1 \in Rows) =>
            report_data[r].time_sum >= report_data[r + 1].time_sum

C7_Witness ==
    /\ rep = "returned"
    /\ Len(report_data) >= 2
    /\ report_data[1].time_sum > report_data[2].time_sum
    /\ report_data[1].url # statistics[1].url

\* C8: in process_logs a line that fails to parse adds exactly one to
\* errors_count, leaves the statistics map and total_time unchanged and the
\* loop goes on; a line that parses leaves errors_count unchanged.
LineFails(line) ==
    \/ line.kind = "bytes"
    \/ Len(Split(line.chars)) < 8
    \/ ~IsFloat(Split(line.chars)[Len(Split(line.chars))])

C8_FailedLineFrame ==
    [][ (i' = i + 1) =>
            IF LineFails(logs[i + 1])
            THEN /\ errors_count' = errors_count + 1
                 /\ statistics' = statistics
                 /\ total_time' = total_time
                 /\ pc' = "process_logs"
                 /\ exc' = "none"
            ELSE errors_count' = errors_count ]_vars

C8_Witness ==
    /\ errors_count >= 1
    /\ statistics # <<>>
    /\ \E k \in 1..i : \E j \in 1..i :
          k < j /\ LineFails(logs[k]) /\ logs[k].kind = "str" /\ ~LineFails(logs[j])

\* C9: after any prefix of the lines (and in the returned result) total_time
\* is the sum over all URLs of the map of the URL's recorded times, and the
\* number of recorded times plus errors_count is the number of lines done.
RECURSIVE SumAll(_)
SumAll(stats) == IF stats = <<>> THEN 0 ELSE Sum(Head(stats).times) + SumAll(Tail(stats))

RECURSIVE CountAll(_)
CountAll(stats) == IF stats = <<>> THEN 0 ELSE Len(Head(stats).times) + CountAll(Tail(stats))

C9_TotalsConsistent ==
    /\ total_time = SumAll(statistics)
    /\ CountAll(statistics) + errors_count = i

C9_Witness ==
    /\ agg = "returned"
    /\ Len(statistics) >= 2
    /\ errors_count >= 1
    /\ total_time > 0

\* C10: time_med of a reported URL is the middle element of its sorted times
\* for an odd length and, for an even length 2k, the k-th smallest (the
\* lower-middle element).
\* v is the r-th smallest of times: fewer than r elements are below v and at
\* least r elements are at most v.
IsRthSmallest(times, v, r) ==
    /\ Cardinality({ k \in 1..Len(times) : times[k] < v }) < r
    /\ Cardinality({ k \in 1..Len(times) : times[k] <= v }) >= r

TimesOf(url) == statistics[CHOOSE k \in 1..Len(statistics) : statistics[k].url = url].times

C10_MedianLowerMiddle ==
    (rep = "returned") =>
        \A r \in Rows :
            LET times == TimesOf(report_data[r].url)
                n == Len(times)
            IN  IsRthSmallest(times, report_data[r].time_med,
                              IF n % 2 = 0 THEN n \div 2 ELSE (n + 1) \div 2)

\* C10 as amended: for an even length 2k, time_med is the (k+1)-th smallest
\* (the upper-middle element); for an odd length it is the middle element.
C10_MedianUpperMiddle ==
    (rep = "returned") =>
        \A r \in Rows :
            LET times == TimesOf(report_data[r].url)
                n == Len(times)
            IN  IsRthSmallest(times, report_data[r].time_med,
                              IF n % 2 = 0 THEN n \div 2 + 1 ELSE (n + 1) \div 2)

C10_Witness ==
    /\ rep = "returned"
    /\ \E r \in Rows :
          LET times == TimesOf(report_data[r].url)
          IN  /\ Len(times) = 2
              /\ times[1] # times[2]
              /\ report_data[r].time_med = MaxOf(times)
====
